---- MODULE Spec2Model ----
(***************************************************************************)
(* ATLANTIS-AI: the task / assignment / work-bot lifecycle.                *)
(*                                                                         *)
(* server/atlantis-ai.js (AtlantisAI) creates tasks and delegates work     *)
(* packages to sub-AI agents; server/sub-ai-agents.js (SubAIAgent,         *)
(* SubAIManager) processes the assignments in timer-driven sweeps.  The    *)
(* store is the SQLite schema of scripts/init-database.js.                 *)
(*                                                                         *)
(* Atomicity: Node runs a callback to its next await on real I/O.  The     *)
(* only such awaits are the reasoning calls (claude.messages.create), so   *)
(* each action below is one stretch of code between two reasoning calls.   *)
(*                                                                         *)
(* Store: a statement fails when a bound parameter is undefined or breaks  *)
(* a NOT NULL or UNIQUE constraint; the failures explored besides these    *)
(* are the first INSERT of the monitorProgress call that receiveTask does  *)
(* not await, and the UPDATE in processAssignment's catch block.  A        *)
(* double-quoted "completed" / "active" in the SQL is read as a string     *)
(* literal; a SELECT without ORDER BY returns rows in rowid order; ORDER   *)
(* BY returns rows of equal key in any order.                              *)
(***************************************************************************)
EXTENDS Integers, Sequences, FiniteSets, TLC

\* ---------------------------------------------------------------- bounds
MaxAssignments == 2    \* rows of task_assignments, work packages of a plan
MaxElements == 6       \* elements of one work package
MaxReplyTasks == 6     \* tasks in one decompose reply
MaxBots == 6           \* rows of work_bots
MaxFailures == 1       \* failing execute reasoning calls
MaxPackages == 3       \* work packages of a plan, where plans are the subject
MaxChecks == 2         \* monitorProgress calls made by a client
MaxReads == 1          \* getTaskStatus, interactWithUser and seeding calls
MaxTicks == 1          \* seconds the store's clock advances

\* ------------------------------------------------------------- constants
maxWorkBots == 5
maxCapacity == 10      \* sub_ai_agents.max_capacity, the column's default
NaN == -1              \* Math.round(0 / 0), bound by SQLite as NULL
Infinity == 1000000    \* Math.round(k / 0) for k > 0

\* The agents seedSubAIAgents inserts, and the two of them that plans name
SeededAgentIds ==
  {"sub-ai-code", "sub-ai-architecture", "sub-ai-testing", "sub-ai-security",
   "sub-ai-docs", "sub-ai-devops", "sub-ai-datascience", "sub-ai-uiux",
   "sub-ai-backend", "sub-ai-frontend", "sub-ai-database", "sub-ai-api"}
AgentIds == {"sub-ai-code", "sub-ai-testing"}
UnknownAgent == "sub-ai-unknown"
FallbackAgent == "sub-ai-code"

Min(a, b) == IF a < b THEN a ELSE b

\* Math.round of the quotient c / n * 100 (round half up)
Round100(c, n) == (200 * c + n) \div (2 * n)

\* Element texts and reply task descriptions; texts are distinct
ElementText(i) == <<"element", i>>
TaskText(j) == <<"task", j>>
NullText == <<"null", 0>>
MainImplementation == <<"Main implementation", 0>>
Elements(n) == [i \in 1..n |-> ElementText(i)]

\* Task inputs of receiveTask: a property that is absent in the JavaScript
\* object is absent in the record
ValidInput == [userId |-> 1, title |-> "title", description |-> "description"]
TaskInputs == {ValidInput,
               [userId |-> 1, description |-> "description"],
               [title |-> "title", description |-> "description"],
               [description |-> "description"]}

\* The inputs a specification explores.  Concurrent: the work packages of
\* one task, two sweeps overlapping (a timer tick during a sweep), the
\* smallest replies.  Crowded: the same overlap over two assignments with
\* replies of several tasks.  Single: one assignment and one sweep at a
\* time, with every size of input.  Intake: one receiveTask call with every
\* task input, plans of up to MaxPackages packages, malformed plan replies
\* and the store failure.  Client: one task whose plan may be malformed, and
\* a client that calls monitorProgress.  TwoTasks: two tasks of one package
\* each under two overlapping sweeps, and a client that calls
\* monitorProgress.  Reader: one task, one sweep, a clock that advances, a
\* client that calls getTaskStatus and interactWithUser, and a restart that
\* seeds again.  Lookup: two tasks of either title whose identifiers may
\* collide, one assignment, and a client that calls getTaskStatus.
Concurrent == [tasks |-> 1, packages |-> MaxAssignments,
               assignments |-> MaxAssignments, sweeps |-> 2,
               elementCounts |-> {1}, replyCounts |-> {0}, nullFirst |-> {},
               inputs |-> {ValidInput}, malformed |-> FALSE,
               storeFailure |-> FALSE, checks |-> 0,
             reads |-> 0, ticks |-> 0, collisions |-> FALSE,
             named |-> AgentIds \cup {UnknownAgent}, inactive |-> {}]
Crowded == [tasks |-> 1, packages |-> 2, assignments |-> 2, sweeps |-> 2,
            elementCounts |-> {2}, replyCounts |-> {0, 4}, nullFirst |-> {},
            inputs |-> {ValidInput}, malformed |-> FALSE,
            storeFailure |-> FALSE, checks |-> 0,
             reads |-> 0, ticks |-> 0, collisions |-> FALSE,
             named |-> AgentIds \cup {UnknownAgent}, inactive |-> {}]
Single == [tasks |-> 1, packages |-> 1, assignments |-> 1, sweeps |-> 1,
           elementCounts |-> 0..MaxElements, replyCounts |-> 0..MaxReplyTasks,
           nullFirst |-> 1..MaxReplyTasks,
           inputs |-> {ValidInput}, malformed |-> FALSE,
           storeFailure |-> FALSE, checks |-> 0,
             reads |-> 0, ticks |-> 0, collisions |-> FALSE,
             named |-> AgentIds \cup {UnknownAgent}, inactive |-> {}]
Intake == [tasks |-> 1, packages |-> MaxPackages, assignments |-> MaxPackages,
           sweeps |-> 1, elementCounts |-> {1}, replyCounts |-> {0},
           nullFirst |-> {}, inputs |-> TaskInputs, malformed |-> TRUE,
           storeFailure |-> TRUE, checks |-> 0,
             reads |-> 0, ticks |-> 0, collisions |-> FALSE,
             named |-> AgentIds \cup {UnknownAgent}, inactive |-> {}]
Client == [tasks |-> 1, packages |-> 2, assignments |-> 2, sweeps |-> 1,
           elementCounts |-> {1}, replyCounts |-> {0}, nullFirst |-> {1},
           inputs |-> {ValidInput}, malformed |-> TRUE,
           storeFailure |-> FALSE, checks |-> MaxChecks,
             reads |-> 0, ticks |-> 0, collisions |-> FALSE,
             named |-> AgentIds \cup {UnknownAgent}, inactive |-> {}]
TwoTasks == [tasks |-> 2, packages |-> 1, assignments |-> 2, sweeps |-> 2,
             elementCounts |-> {1}, replyCounts |-> {0}, nullFirst |-> {},
             inputs |-> {ValidInput}, malformed |-> FALSE,
             storeFailure |-> FALSE, checks |-> 1,
             reads |-> 0, ticks |-> 0, collisions |-> FALSE,
             named |-> AgentIds \cup {UnknownAgent}, inactive |-> {}]

OtherInput == [userId |-> 1, title |-> "other title",
               description |-> "description"]
Reader == [tasks |-> 1, packages |-> 1, assignments |-> 1, sweeps |-> 1,
           elementCounts |-> {1}, replyCounts |-> {0}, nullFirst |-> {},
           inputs |-> {ValidInput}, malformed |-> FALSE,
           storeFailure |-> FALSE, checks |-> 0,
           reads |-> MaxReads, ticks |-> MaxTicks, collisions |-> FALSE,
           named |-> AgentIds \cup {UnknownAgent}, inactive |-> {}]
Lookup == [tasks |-> 2, packages |-> 1, assignments |-> 1, sweeps |-> 1,
           elementCounts |-> {1}, replyCounts |-> {0}, nullFirst |-> {},
           inputs |-> {ValidInput, OtherInput}, malformed |-> FALSE,
           storeFailure |-> FALSE, checks |-> 0,
           reads |-> MaxReads, ticks |-> 0, collisions |-> TRUE,
           named |-> AgentIds \cup {UnknownAgent}, inactive |-> {}]

\* Capacity: one task whose plan names one agent in up to maxCapacity + 1
\* packages.  Roster: one task whose plan names two agents, of which the
\* store at start-up holds one as inactive.
Capacity == [tasks |-> 1, packages |-> maxCapacity + 1,
             assignments |-> maxCapacity + 1, sweeps |-> 1,
             elementCounts |-> {1}, replyCounts |-> {}, nullFirst |-> {},
             inputs |-> {ValidInput}, malformed |-> FALSE,
             storeFailure |-> FALSE, checks |-> 0,
             reads |-> 0, ticks |-> 0, collisions |-> FALSE,
             named |-> {"sub-ai-code"}, inactive |-> {}]
Roster == [tasks |-> 1, packages |-> 2, assignments |-> 2, sweeps |-> 1,
           elementCounts |-> {1}, replyCounts |-> {0}, nullFirst |-> {},
           inputs |-> {ValidInput}, malformed |-> FALSE,
           storeFailure |-> FALSE, checks |-> 0,
           reads |-> 0, ticks |-> 0, collisions |-> FALSE,
           named |-> AgentIds, inactive |-> {"sub-ai-testing"}]

VARIABLES
  scope,             \* the inputs explored, fixed by the initial state
  tasks,             \* table tasks, row id = index
  sub_ai_agents,     \* table sub_ai_agents, keyed by agent_id
  task_assignments,  \* table task_assignments, row id = index
  work_bots,         \* table work_bots, row id = index; statuses is the
                     \* history of the row: every status written to it
  progress_updates,  \* table progress_updates, in insertion order
  requests,          \* receiveTask calls: position, input, task row, how
                     \* its reasoning calls went, and the envelope returned
  sweeps,            \* processPendingAssignments calls in flight
  processLog,        \* per assignment: how often processAssignment began,
                     \* how often analyzeAssignment logged an error,
                     \* whether a run of it has ended failed or partial,
                     \* how often reportToAtlantis ran for it, and whether
                     \* an exception has escaped processAssignment
  failures,          \* failed execute reasoning calls so far
  checks,            \* monitorProgress calls made by a client so far
  clock,             \* CURRENT_TIMESTAMP of the store, in seconds
  reads,             \* getTaskStatus, interactWithUser and seeding calls so far
  response           \* the last such call: what it was and what it returned

vars == <<scope, tasks, sub_ai_agents, task_assignments, work_bots,
          progress_updates, requests, sweeps, processLog, failures, checks,
          clock, reads, response>>

\* What no step of the task and assignment lifecycle touches
client == <<clock, reads, response>>

\* The store as one value, so that a handler is a composition of writes
DB == [tasks |-> tasks, sub_ai_agents |-> sub_ai_agents,
       task_assignments |-> task_assignments, work_bots |-> work_bots,
       progress_updates |-> progress_updates, now |-> clock]

SetDB(d) ==
  /\ tasks' = d.tasks
  /\ sub_ai_agents' = d.sub_ai_agents
  /\ task_assignments' = d.task_assignments
  /\ work_bots' = d.work_bots
  /\ progress_updates' = d.progress_updates

IdleSweep == [pc |-> "idle", pending |-> <<>>, idx |-> 0,
              workBots |-> <<>>, botIdx |-> 0]

\* seedSubAIAgents with INSERT OR REPLACE
seedSubAIAgentsReplaces(catalog) ==
  [a \in DOMAIN catalog \cup SeededAgentIds |->
     IF a \in SeededAgentIds THEN [current_load |-> 0, status |-> "active"]
     ELSE catalog[a]]

\* seedSubAIAgents: INSERT OR IGNORE of the 12 agents; agent_id is UNIQUE,
\* current_load defaults to 0 and status to 'active'
seedSubAIAgents(catalog) ==
  [a \in DOMAIN catalog \cup SeededAgentIds |->
     IF a \in DOMAIN catalog THEN catalog[a]
     ELSE [current_load |-> 0, status |-> "active"]]

\* The sub_ai_agents rows the database file holds when the server starts:
\* none, or rows whose status an operator has set to inactive
Stored == [a \in scope.inactive |-> [current_load |-> 0, status |-> "inactive"]]

InitDB ==
  /\ tasks = <<>>
  /\ sub_ai_agents = seedSubAIAgents(Stored)
  /\ task_assignments = <<>>
  /\ work_bots = <<>>
  /\ progress_updates = <<>>
  /\ requests = <<>>
  /\ sweeps = [s \in 1..scope.sweeps |-> IdleSweep]
  /\ processLog = <<>>
  /\ failures = 0
  /\ checks = 0
  /\ clock = 0
  /\ reads = 0
  /\ response = [op |-> "none", pc |-> "done"]

Init == scope = Concurrent /\ InitDB
InitCrowded == scope = Crowded /\ InitDB
InitSingle == scope = Single /\ InitDB
InitIntake == scope = Intake /\ InitDB
InitClient == scope = Client /\ InitDB
InitTwoTasks == scope = TwoTasks /\ InitDB
InitReader == scope = Reader /\ InitDB
InitLookup == scope = Lookup /\ InitDB
InitCapacity == scope = Capacity /\ InitDB
InitRoster == scope = Roster /\ InitDB

\* ------------------------------------------------ progress_updates writes

\* addProgressUpdate that writes over the newest row of the log
AtlantisAddProgressUpdateOverLast(d, taskId, sourceType, sourceId, message, progress) ==
  LET row == [task_id |-> taskId, source_type |-> sourceType,
              source_id |-> sourceId, message |-> message,
              progress_percentage |-> progress, created_at |-> d.now]
  IN [d EXCEPT !.progress_updates =
        IF @ = <<>> THEN <<row>> ELSE [@ EXCEPT ![Len(@)] = row]]

\* AtlantisAI.addProgressUpdate
AtlantisAddProgressUpdate(d, taskId, sourceType, sourceId, message, progress) ==
  [d EXCEPT !.progress_updates = Append(@,
     [task_id |-> taskId, source_type |-> sourceType, source_id |-> sourceId,
      message |-> message, progress_percentage |-> progress,
      created_at |-> d.now])]

\* SubAIAgent.addProgressUpdate: no progress_percentage (NULL, written NaN)
addProgressUpdate(d, taskId, sourceId, message) ==
  [d EXCEPT !.progress_updates = Append(@,
     [task_id |-> taskId, source_type |-> "sub-ai", source_id |-> sourceId,
      message |-> message, progress_percentage |-> NaN,
      created_at |-> d.now])]

\* ------------------------------------------------------------ AtlantisAI

\* Work packages a plan reply can name; a malformed package has no elements
Packages ==
  [assignedTo : scope.named,
   elements : {Elements(n) : n \in scope.elementCounts}]
  \cup (IF scope.malformed THEN [assignedTo : scope.named] ELSE {})

\* Replies of the plan reasoning call: a failure (or unparsable text), or
\* the parsed object, which may have no workPackages
PlanReplies ==
  {[kind |-> "error"]} \cup
  {[kind |-> "plan", plan |-> [overview |-> "overview", workPackages |-> w]] :
     w \in UNION {[1..n -> Packages] : n \in 0..scope.packages}} \cup
  (IF scope.malformed THEN {[kind |-> "plan", plan |-> [overview |-> "overview"]]}
   ELSE {})

FallbackPlan ==
  [overview |-> "Auto-generated basic plan",
   workPackages |-> <<[assignedTo |-> FallbackAgent,
                       elements |-> <<MainImplementation>>]>>]

\* createProjectPlan whose fallback plan has no work package
createProjectPlanEmpty(reply) ==
  IF reply.kind = "plan" THEN reply.plan
  ELSE [overview |-> "Auto-generated basic plan", workPackages |-> <<>>]

\* createProjectPlan: the parsed plan as it is, or the fallback basic plan
createProjectPlan(reply) ==
  IF reply.kind = "plan" THEN reply.plan ELSE FallbackPlan

\* delegateToSubAIs stopping at a package that names an unknown agent
RECURSIVE DelegateFromAborts(_, _, _, _)
DelegateFromAborts(d, taskId, workPackages, i) ==
  IF i > Len(workPackages) THEN [d |-> d, threw |-> FALSE]
  ELSE LET workPackage == workPackages[i]
       IN IF workPackage.assignedTo \notin DOMAIN d.sub_ai_agents
          THEN [d |-> d, threw |-> FALSE]
          ELSE IF "elements" \notin DOMAIN workPackage
          THEN [d |-> d, threw |-> TRUE]
          ELSE LET d1 == [d EXCEPT
                     !.task_assignments = Append(@,
                        [task_id |-> taskId, agent_id |-> workPackage.assignedTo,
                         assigned_elements |-> workPackage.elements,
                         status |-> "assigned", progress |-> 0,
                         started_at |-> FALSE, completed_at |-> FALSE]),
                     !.sub_ai_agents[workPackage.assignedTo].current_load = @ + 1]
                   d2 == AtlantisAddProgressUpdate(d1, taskId, "atlantis",
                           <<"atlantis", "ATLANTIS">>,
                           [kind |-> "Assigned", args |-> <<workPackage.assignedTo>>], 10)
               IN DelegateFromAborts(d2, taskId, workPackages, i + 1)

\* delegateToSubAIs, the loop over plan.workPackages from package i on: the
\* store after it, and whether a statement threw.  JSON.stringify of absent
\* elements is undefined, which the INSERT cannot bind.
RECURSIVE DelegateFrom(_, _, _, _)
DelegateFrom(d, taskId, workPackages, i) ==
  IF i > Len(workPackages) THEN [d |-> d, threw |-> FALSE]
  ELSE LET workPackage == workPackages[i]
       IN IF workPackage.assignedTo \notin DOMAIN d.sub_ai_agents
          THEN DelegateFrom(d, taskId, workPackages, i + 1)
          ELSE IF "elements" \notin DOMAIN workPackage
          THEN [d |-> d, threw |-> TRUE]
          ELSE LET d1 == [d EXCEPT
                     !.task_assignments = Append(@,
                        [task_id |-> taskId, agent_id |-> workPackage.assignedTo,
                         assigned_elements |-> workPackage.elements,
                         status |-> "assigned", progress |-> 0,
                         started_at |-> FALSE, completed_at |-> FALSE]),
                     !.sub_ai_agents[workPackage.assignedTo].current_load = @ + 1]
                   d2 == AtlantisAddProgressUpdate(d1, taskId, "atlantis",
                           <<"atlantis", "ATLANTIS">>,
                           [kind |-> "Assigned", args |-> <<workPackage.assignedTo>>], 10)
               IN DelegateFrom(d2, taskId, workPackages, i + 1)

\* delegateToSubAIs that refuses a plan taking an agent over max_capacity
delegateToSubAIsGated(d, taskId, plan) ==
  IF "workPackages" \notin DOMAIN plan THEN [d |-> d, threw |-> TRUE]
  ELSE LET loop == DelegateFrom(d, taskId, plan.workPackages, 1)
       IN IF loop.threw THEN loop
          ELSE IF \E a \in DOMAIN loop.d.sub_ai_agents :
                    loop.d.sub_ai_agents[a].current_load > maxCapacity
          THEN [d |-> d, threw |-> TRUE]
          ELSE [d |-> [loop.d EXCEPT !.tasks[taskId].status = "in-progress"],
                threw |-> FALSE]

\* delegateToSubAIs: iterating an absent plan.workPackages throws
delegateToSubAIs(d, taskId, plan) ==
  IF "workPackages" \notin DOMAIN plan THEN [d |-> d, threw |-> TRUE]
  ELSE LET loop == DelegateFrom(d, taskId, plan.workPackages, 1)
       IN IF loop.threw THEN loop
          ELSE [d |-> [loop.d EXCEPT !.tasks[taskId].status = "in-progress"],
                threw |-> FALSE]

\* finalizeTask that reopens a task it finds completed
finalizeTaskReopens(d, taskId) ==
  AtlantisAddProgressUpdate(
    [d EXCEPT !.tasks[taskId].status =
                 IF @ = "completed" THEN "in-progress" ELSE "completed",
              !.tasks[taskId].completed_at = TRUE],
    taskId, "atlantis", <<"atlantis", "ATLANTIS">>,
    [kind |-> "Task completed successfully", args |-> <<>>], 100)

\* finalizeTask
finalizeTask(d, taskId) ==
  AtlantisAddProgressUpdate(
    [d EXCEPT !.tasks[taskId].status = "completed",
              !.tasks[taskId].completed_at = TRUE],
    taskId, "atlantis", <<"atlantis", "ATLANTIS">>,
    [kind |-> "Task completed successfully", args |-> <<>>], 100)

\* monitorProgress that takes a task without assignments as finished
monitorProgressVacuous(d, taskId) ==
  LET assignments == {i \in DOMAIN d.task_assignments :
                        d.task_assignments[i].task_id = taskId}
      completed == Cardinality({i \in assignments :
                        d.task_assignments[i].status = "completed"})
      total == Cardinality(assignments)
      progress == IF total > 0 THEN Round100(completed, total) ELSE 0
      d1 == AtlantisAddProgressUpdate(d, taskId, "atlantis",
              <<"atlantis", "ATLANTIS">>,
              [kind |-> "Overall progress", args |-> <<completed, total>>], progress)
  IN IF completed = total THEN finalizeTask(d1, taskId) ELSE d1

\* monitorProgress
monitorProgress(d, taskId) ==
  LET assignments == {i \in DOMAIN d.task_assignments :
                        d.task_assignments[i].task_id = taskId}
      completed == Cardinality({i \in assignments :
                        d.task_assignments[i].status = "completed"})
      total == Cardinality(assignments)
      progress == IF total > 0 THEN Round100(completed, total) ELSE 0
      d1 == AtlantisAddProgressUpdate(d, taskId, "atlantis",
              <<"atlantis", "ATLANTIS">>,
              [kind |-> "Overall progress", args |-> <<completed, total>>], progress)
  IN IF completed = total /\ total > 0 THEN finalizeTask(d1, taskId) ELSE d1

\* understandIntent's fallback understanding
FallbackUnderstanding(task) ==
  [primaryIntent |-> task.description, complexity |-> "Moderate",
   requiredExpertise |-> <<"General">>]

ParsedUnderstanding == [primaryIntent |-> "parsed"]

\* What receiveTask's catch block returns
FailureEnvelope(request) ==
  [pc |-> "done", input |-> request.input, task |-> request.task,
   reasoning |-> request.reasoning,
   success |-> FALSE, unhandledRejection |-> FALSE]

\* The external identifier createTask makes of a uuid
ExternalId(uuid) == <<"task-", uuid>>

\* The uuids uuidv4 can return: a fresh one, or where collisions are
\* explored any of a few
Uuids == IF scope.collisions THEN 1..scope.tasks ELSE {Len(tasks) + 1}

\* receiveTask whose createTask inserts the row whatever the input
ReceiveTaskUnchecked(input, uuid) ==
  /\ Len(requests) < scope.tasks
  /\ tasks' = Append(tasks, [task_id |-> ExternalId(uuid),
                             title |-> IF "title" \in DOMAIN input
                                       THEN input.title ELSE "",
                             status |-> "pending", intent |-> "",
                             completed_at |-> FALSE])
  /\ requests' = Append(requests, [pc |-> "understand", input |-> input,
                                   task |-> Len(tasks) + 1, reasoning |-> <<>>])
  /\ UNCHANGED <<scope, sub_ai_agents, task_assignments, work_bots, progress_updates,
                 sweeps, processLog, failures, checks, client>>

\* receiveTask up to the understand reasoning call: createTask, whose INSERT
\* throws on an absent userId or title (columns user_id and title are
\* NOT NULL, and undefined cannot be bound) and on a task_id that a row
\* already has (column task_id is UNIQUE)
ReceiveTask(input, uuid) ==
  /\ Len(requests) < scope.tasks
  /\ IF /\ {"userId", "title"} \subseteq DOMAIN input
        /\ \A t \in 1..Len(tasks) : tasks[t].task_id # ExternalId(uuid)
     THEN /\ tasks' = Append(tasks, [task_id |-> ExternalId(uuid),
                                     title |-> input.title,
                                     status |-> "pending", intent |-> "",
                                     completed_at |-> FALSE])
          /\ requests' = Append(requests, [pc |-> "understand", input |-> input,
                                           task |-> Len(tasks) + 1,
                                           reasoning |-> <<>>])
     ELSE /\ tasks' = tasks
          /\ requests' = Append(requests,
                            FailureEnvelope([input |-> input, task |-> 0,
                                             reasoning |-> <<>>]))
  /\ UNCHANGED <<scope, sub_ai_agents, task_assignments, work_bots, progress_updates,
                 sweeps, processLog, failures, checks, client>>

\* understandIntent returns (parsed reply, or fallback); the plan call starts
UnderstandReturn(r, ok) ==
  /\ requests[r].pc = "understand"
  /\ tasks' = IF ok THEN [tasks EXCEPT ![requests[r].task].intent = "understanding"]
              ELSE tasks
  /\ requests' = [requests EXCEPT ![r] =
                    [pc |-> "plan", input |-> @.input, task |-> @.task,
                     reasoning |-> <<IF ok THEN "replied" ELSE "failed">>,
                     understanding |-> IF ok THEN ParsedUnderstanding
                                       ELSE FallbackUnderstanding(@.input)]]
  /\ UNCHANGED <<scope, sub_ai_agents, task_assignments, work_bots, progress_updates,
                 sweeps, processLog, failures, checks, client>>

\* createProjectPlan returns; delegateToSubAIs runs and, unless it threw,
\* monitorProgress is called without await: when its first INSERT fails
\* (storeFails) its promise rejects with nobody to catch it
PlanReturn(r, reply, storeFails) ==
  /\ requests[r].pc = "plan"
  /\ storeFails => scope.storeFailure
  /\ LET taskId == requests[r].task
         projectPlan == createProjectPlan(reply)
         outcome == IF reply.kind = "error" THEN "failed"
                    ELSE IF "workPackages" \in DOMAIN reply.plan THEN "replied"
                    ELSE "noWorkPackages"
         delegated == delegateToSubAIs(DB, taskId, projectPlan)
         d2 == IF delegated.threw \/ storeFails THEN delegated.d
               ELSE monitorProgress(delegated.d, taskId)
     IN /\ Len(d2.task_assignments) <= scope.assignments
        /\ SetDB(d2)
        /\ processLog' = [i \in 1..Len(d2.task_assignments) |->
                              IF i <= Len(processLog) THEN processLog[i]
                              ELSE [began |-> 0, analysisErrors |-> 0,
                                    endedUnresolved |-> FALSE,
                                    reports |-> 0, escaped |-> FALSE]]
        /\ requests' = [requests EXCEPT ![r] =
             IF delegated.threw
             THEN FailureEnvelope([@ EXCEPT !.reasoning = Append(@, outcome)])
             ELSE [pc |-> "done", input |-> @.input, task |-> @.task,
                   reasoning |-> Append(@.reasoning, outcome),
                   success |-> TRUE, understanding |-> @.understanding,
                   projectPlan |-> projectPlan,
                   assignments |-> [k \in 1..(Len(d2.task_assignments)
                                              - Len(task_assignments)) |->
                                      Len(task_assignments) + k],
                   unhandledRejection |-> storeFails]]
  /\ UNCHANGED <<scope, sweeps, failures, checks, client>>

\* A client of AtlantisAI calls monitorProgress for a task
MonitorProgress(taskId) ==
  /\ checks < scope.checks
  /\ SetDB(monitorProgress(DB, taskId))
  /\ checks' = checks + 1
  /\ UNCHANGED <<scope, requests, sweeps, processLog, failures, client>>

\* ------------------------------------------------- reads of AtlantisAI

\* An external identifier that no task has
Nonexistent == <<"nonexistent", 0>>

\* A lookup that returns the first row of the table
TaskRowFirst(d, taskId) ==
  IF \E t \in 1..Len(d.tasks) : d.tasks[t].task_id = taskId THEN 1 ELSE 0

\* The row of the task with external identifier taskId, 0 if there is none
TaskRow(d, taskId) ==
  IF \E t \in 1..Len(d.tasks) : d.tasks[t].task_id = taskId
  THEN CHOOSE t \in 1..Len(d.tasks) : d.tasks[t].task_id = taskId
  ELSE 0

\* The orders in which ORDER BY created_at DESC may return the updates of a
\* task: newest second first, rows of the same second in any order
UpdateOrders(d, taskId) ==
  LET t == TaskRow(d, taskId)
      ids == {u \in 1..Len(d.progress_updates) : d.progress_updates[u].task_id = t}
  IN {o \in [1..Cardinality(ids) -> ids] :
        /\ \A j, k \in 1..Cardinality(ids) : j # k => o[j] # o[k]
        /\ \A j, k \in 1..Cardinality(ids) :
             j < k => d.progress_updates[o[j]].created_at
                        >= d.progress_updates[o[k]].created_at}

\* getTaskStatus without the check that the task exists
getTaskStatusUnchecked(d, taskId, order) ==
  LET t == TaskRow(d, taskId)
  IN [task |-> IF t = 0 THEN <<>> ELSE [id |-> t] @@ d.tasks[t],
      assignments |-> SelectSeq(d.task_assignments, LAMBDA a : a.task_id = t),
      updates |-> [k \in 1..Len(order) |-> d.progress_updates[order[k]]]]

\* getTaskStatus; order is the order the store returns the updates in
getTaskStatus(d, taskId, order) ==
  LET t == TaskRow(d, taskId)
  IN IF t = 0 THEN [error |-> "Task not found"]
     ELSE [task |-> [id |-> t] @@ d.tasks[t],
           assignments |-> SelectSeq(d.task_assignments, LAMBDA a : a.task_id = t),
           updates |-> [k \in 1..Len(order) |-> d.progress_updates[order[k]]]]

\* The identifiers a client asks about
AskedIds == {tasks[t].task_id : t \in 1..Len(tasks)} \cup {Nonexistent}

\* getTaskStatus that records the view in the progress log
GetTaskStatusTouches(taskId, order) ==
  /\ reads < scope.reads
  /\ response.pc = "done"
  /\ order \in UpdateOrders(DB, taskId)
  /\ reads' = reads + 1
  /\ response' = [op |-> "getTaskStatus", pc |-> "done", taskId |-> taskId,
                  threw |-> FALSE, result |-> getTaskStatus(DB, taskId, order)]
  /\ progress_updates' =
       IF TaskRow(DB, taskId) = 0 THEN progress_updates
       ELSE AtlantisAddProgressUpdate(DB, TaskRow(DB, taskId), "atlantis",
              <<"atlantis", "ATLANTIS">>, [kind |-> "Viewed", args |-> <<>>],
              0).progress_updates
  /\ UNCHANGED <<scope, tasks, sub_ai_agents, task_assignments, work_bots,
                 requests, sweeps, processLog, failures, checks, clock>>

\* A client calls getTaskStatus
GetTaskStatus(taskId, order) ==
  /\ reads < scope.reads
  /\ response.pc = "done"
  /\ order \in UpdateOrders(DB, taskId)
  /\ reads' = reads + 1
  /\ response' = [op |-> "getTaskStatus", pc |-> "done", taskId |-> taskId,
                  threw |-> FALSE, result |-> getTaskStatus(DB, taskId, order)]
  /\ UNCHANGED <<scope, tasks, sub_ai_agents, task_assignments, work_bots,
                 progress_updates, requests, sweeps, processLog, failures,
                 checks, clock>>

\* interactWithUser up to the respond reasoning call: getTaskStatus
InteractStart(taskId, order) ==
  /\ reads < scope.reads
  /\ response.pc = "done"
  /\ order \in UpdateOrders(DB, taskId)
  /\ reads' = reads + 1
  /\ response' = [op |-> "interactWithUser", pc |-> "respond", taskId |-> taskId,
                  status |-> getTaskStatus(DB, taskId, order)]
  /\ UNCHANGED <<scope, tasks, sub_ai_agents, task_assignments, work_bots,
                 progress_updates, requests, sweeps, processLog, failures,
                 checks, clock>>

\* The fallback string of interactWithUser
MonitoringText(status) == <<"I'm monitoring your task. Status: ", status>>

\* The respond reasoning call returns (ok) or fails; in the catch block
\* status.task.status throws when status is {error: 'Task not found'}
InteractReturn(ok) ==
  /\ response.pc = "respond"
  /\ response' =
       [op |-> "interactWithUser", pc |-> "done", taskId |-> response.taskId,
        reasoning |-> IF ok THEN "replied" ELSE "failed",
        status |-> response.status,
        threw |-> ~ok /\ "task" \notin DOMAIN response.status,
        result |-> IF ok THEN <<"reply", "">>
                   ELSE IF "task" \in DOMAIN response.status
                   THEN MonitoringText(response.status.task.status)
                   ELSE <<"TypeError", "">>]
  /\ UNCHANGED <<scope, tasks, sub_ai_agents, task_assignments, work_bots,
                 progress_updates, requests, sweeps, processLog, failures,
                 checks, clock, reads>>

\* The server starts on the same store: seedSubAIAgents runs again
SeedSubAIAgents ==
  /\ reads < scope.reads
  /\ response.pc = "done"
  /\ reads' = reads + 1
  /\ response' = [op |-> "seedSubAIAgents", pc |-> "done"]
  /\ sub_ai_agents' = seedSubAIAgents(sub_ai_agents)
  /\ UNCHANGED <<scope, tasks, task_assignments, work_bots, progress_updates,
                 requests, sweeps, processLog, failures, checks, clock>>

\* A second passes on the store's clock
Tick ==
  /\ clock < scope.ticks
  /\ clock' = clock + 1
  /\ UNCHANGED <<scope, tasks, sub_ai_agents, task_assignments, work_bots,
                 progress_updates, requests, sweeps, processLog, failures,
                 checks, reads, response>>

\* ------------------------------------------------------------ SubAIAgent

\* SubAIManager.agents: the agents that were active at construction
agents == {a \in SeededAgentIds : seedSubAIAgents(Stored)[a].status = "active"}

\* Replies of the decompose reasoning call: a failure (or unparsable text),
\* a reply that parses but has no tasks list, or a list of tasks; in the
\* last kind the first description may be null
TaskList(n, nullFirst) ==
  [j \in 1..n |-> [description |-> IF nullFirst /\ j = 1 THEN NullText ELSE TaskText(j),
                   botType |-> "research"]]

DecomposeReplies ==
  {[kind |-> "error", tasks |-> <<>>], [kind |-> "notasks", tasks |-> <<>>]} \cup
  {[kind |-> "tasks", tasks |-> TaskList(n, FALSE)] : n \in scope.replyCounts} \cup
  {[kind |-> "tasks", tasks |-> TaskList(n, TRUE)] : n \in scope.nullFirst}

\* updateAssignmentStatus that skips the write of in-progress
updateAssignmentStatusLate(d, assignmentId, status) ==
  IF status = "in-progress" THEN d
  ELSE [d EXCEPT !.task_assignments[assignmentId].status = status]

\* updateAssignmentStatus
updateAssignmentStatus(d, assignmentId, status) ==
  [d EXCEPT !.task_assignments[assignmentId].status = status,
            !.task_assignments[assignmentId].started_at =
               IF status = "in-progress" THEN TRUE ELSE @]

\* analyzeAssignment: the parsed reply, or the fallback over the elements
analyzeAssignment(elements, reply) ==
  IF reply.kind = "error"
  THEN [kind |-> "tasks",
        tasks |-> [i \in 1..Len(elements) |->
                     [description |-> elements[i], botType |-> "general"]]]
  ELSE reply

\* createWorkBots without the slice to maxWorkBots
createWorkBotsNoCap(d, assignmentId, agentId, analysis) ==
  LET n == Len(analysis.tasks)
      base == Len(d.work_bots)
      rows == [k \in 1..n |->
                 [assignment_id |-> assignmentId, agent_id |-> agentId,
                  bot_type |-> analysis.tasks[k].botType,
                  task_description |-> analysis.tasks[k].description,
                  status |-> "created", result |-> "null",
                  statuses |-> <<"created">>]]
  IN [d |-> [d EXCEPT !.work_bots = @ \o rows],
      workBots |-> [k \in 1..n |-> base + k]]

\* createWorkBots: one row per task of analysis.tasks.slice(0, maxWorkBots);
\* workBots are the row ids of the bots created
createWorkBots(d, assignmentId, agentId, analysis) ==
  LET n == Min(Len(analysis.tasks), maxWorkBots)
      base == Len(d.work_bots)
      rows == [k \in 1..n |->
                 [assignment_id |-> assignmentId, agent_id |-> agentId,
                  bot_type |-> analysis.tasks[k].botType,
                  task_description |-> analysis.tasks[k].description,
                  status |-> "created", result |-> "null",
                  statuses |-> <<"created">>]]
  IN [d |-> [d EXCEPT !.work_bots = @ \o rows],
      workBots |-> [k \in 1..n |-> base + k]]

\* executeWorkBot: the reasoning failure is caught and returned as a result
executeWorkBot(ok) == IF ok THEN "success" ELSE "failure"

\* reportToAtlantis that writes back a load it read before a concurrent
\* creation: the increment of that creation is lost
reportToAtlantisStale(d, agentId, assignmentId) ==
  LET results == {b \in DOMAIN d.work_bots :
                    d.work_bots[b].assignment_id = assignmentId}
      completed == Cardinality({b \in results : d.work_bots[b].status = "completed"})
      total == Cardinality(results)
      status == IF completed = total THEN "completed" ELSE "partial"
      d1 == [d EXCEPT !.task_assignments[assignmentId].status = status,
                      !.task_assignments[assignmentId].completed_at = TRUE,
                      !.sub_ai_agents[agentId].current_load =
                         IF \E i \in DOMAIN d.task_assignments :
                              /\ i > assignmentId
                              /\ d.task_assignments[i].agent_id = agentId
                         THEN @ - 2 ELSE @ - 1]
  IN addProgressUpdate(d1, d.task_assignments[assignmentId].task_id,
       <<"sub-ai", agentId>>,
       [kind |-> "completed assignment", args |-> <<completed, total>>])

\* reportToAtlantis
reportToAtlantis(d, agentId, assignmentId) ==
  LET results == {b \in DOMAIN d.work_bots :
                    d.work_bots[b].assignment_id = assignmentId}
      completed == Cardinality({b \in results : d.work_bots[b].status = "completed"})
      total == Cardinality(results)
      status == IF completed = total THEN "completed" ELSE "partial"
      d1 == [d EXCEPT !.task_assignments[assignmentId].status = status,
                      !.task_assignments[assignmentId].completed_at = TRUE,
                      !.sub_ai_agents[agentId].current_load = @ - 1]
  IN addProgressUpdate(d1, d.task_assignments[assignmentId].task_id,
       <<"sub-ai", agentId>>,
       [kind |-> "completed assignment", args |-> <<completed, total>>])

\* The progress executeWorkBots writes after its loop
Progress(completedCount, length) ==
  IF length = 0 THEN (IF completedCount = 0 THEN NaN ELSE Infinity)
  ELSE Round100(completedCount, length)

\* A sweep's run is threaded as m = [d: store, sw: the sweep, count: processLog];
\* where a run is used many times it is bound once, as the one element of a set

\* processPendingAssignments, the loop from pending[idx] on: processAssignment
\* begins (in-progress) and suspends on the decompose call, or the sweep ends
RECURSIVE BeginNext(_)
BeginNext(run) ==
  CHOOSE next \in
    {IF m.sw.idx > Len(m.sw.pending) THEN [m EXCEPT !.sw = IdleSweep]
     ELSE IF m.d.task_assignments[m.sw.pending[m.sw.idx]].agent_id \in agents
          THEN [d |-> updateAssignmentStatus(m.d, m.sw.pending[m.sw.idx], "in-progress"),
                sw |-> [m.sw EXCEPT !.pc = "decompose", !.workBots = <<>>, !.botIdx = 0],
                count |-> [m.count EXCEPT ![m.sw.pending[m.sw.idx]].began = @ + 1]]
          ELSE BeginNext([m EXCEPT !.sw.idx = @ + 1]) : m \in {run}} : TRUE

\* processAssignment has returned: the sweep's loop goes to the next assignment
EndAssignment(m) == BeginNext([m EXCEPT !.sw.idx = @ + 1])

\* processAssignment's catch block
Catch(m) ==
  EndAssignment([m EXCEPT
     !.d = updateAssignmentStatus(m.d, m.sw.pending[m.sw.idx], "failed"),
     !.count[m.sw.pending[m.sw.idx]].endedUnresolved = TRUE])

\* processAssignment's catch block when its UPDATE fails: the exception
\* leaves processAssignment and processPendingAssignments, whose loop ends;
\* the timer's callback logs it
CatchThrows(m) ==
  [m EXCEPT !.sw = IdleSweep,
            !.count[m.sw.pending[m.sw.idx]].escaped = TRUE]

\* executeWorkBots after its loop, then reportToAtlantis
AfterBots(m) ==
  LET id == m.sw.pending[m.sw.idx]
      completedBots == Cardinality({b \in DOMAIN m.d.work_bots :
                          /\ m.d.work_bots[b].assignment_id = id
                          /\ m.d.work_bots[b].status = "completed"})
      d1 == [m.d EXCEPT !.task_assignments[id].progress =
                          Progress(completedBots, Len(m.sw.workBots))]
      d2 == reportToAtlantis(d1, m.d.task_assignments[id].agent_id, id)
  IN EndAssignment([m EXCEPT !.d = d2,
                             !.count[id].endedUnresolved =
                                @ \/ d2.task_assignments[id].status # "completed",
                             !.count[id].reports = @ + 1])

\* executeWorkBots, the loop at bot k: mark it running and suspend on its
\* reasoning call, or leave the loop
StartBot(m, k) ==
  IF k > Len(m.sw.workBots) THEN AfterBots(m)
  ELSE [m EXCEPT !.d.work_bots[m.sw.workBots[k]].status = "running",
                 !.d.work_bots[m.sw.workBots[k]].statuses = Append(@, "running"),
                 !.sw.pc = "bot", !.sw.botIdx = k]

\* executeWorkBots whose loop lets a bot's failure reach processAssignment's
\* catch block instead of going on to the next bot
BotDoneAborts(m, ok) ==
  LET bot == m.sw.workBots[m.sw.botIdx]
      id == m.sw.pending[m.sw.idx]
      row == m.d.work_bots[bot]
      d1 == [m.d EXCEPT !.work_bots[bot].status = "completed",
                        !.work_bots[bot].statuses = Append(@, "completed"),
                        !.work_bots[bot].result = executeWorkBot(ok)]
      d2 == IF row.task_description = NullText
            THEN [d1 EXCEPT !.work_bots[bot].status = "failed",
                            !.work_bots[bot].statuses = Append(@, "failed"),
                            !.work_bots[bot].result = "error"]
            ELSE addProgressUpdate(d1, m.d.task_assignments[id].task_id,
                   <<"bot", bot>>,
                   [kind |-> "Work bot completed", args |-> <<row.task_description>>])
  IN IF ok /\ row.task_description # NullText
     THEN StartBot([m EXCEPT !.d = d2], m.sw.botIdx + 1)
     ELSE Catch([m EXCEPT !.d = d2])

\* executeWorkBots, the loop body once executeWorkBot has returned for the
\* running bot: save the result, add the progress update (substring throws
\* on a null description, which the loop's catch turns into failed)
BotDone(m, ok) ==
  LET bot == m.sw.workBots[m.sw.botIdx]
      id == m.sw.pending[m.sw.idx]
      row == m.d.work_bots[bot]
      d1 == [m.d EXCEPT !.work_bots[bot].status = "completed",
                        !.work_bots[bot].statuses = Append(@, "completed"),
                        !.work_bots[bot].result = executeWorkBot(ok)]
      d2 == IF row.task_description = NullText
            THEN [d1 EXCEPT !.work_bots[bot].status = "failed",
                            !.work_bots[bot].statuses = Append(@, "failed"),
                            !.work_bots[bot].result = "error"]
            ELSE addProgressUpdate(d1, m.d.task_assignments[id].task_id,
                   <<"bot", bot>>,
                   [kind |-> "Work bot completed", args |-> <<row.task_description>>])
  IN StartBot([m EXCEPT !.d = d2], m.sw.botIdx + 1)

\* processAssignment once analyzeAssignment has its reply: createWorkBots
\* (analysis.tasks.slice throws without a tasks list), then executeWorkBots
Decomposed(m, reply, storeFails) ==
  LET id == m.sw.pending[m.sw.idx]
      a == m.d.task_assignments[id]
      analysis == analyzeAssignment(a.assigned_elements, reply)
      m1 == IF reply.kind = "error"
            THEN [m EXCEPT !.count[id].analysisErrors = @ + 1] ELSE m
  IN IF analysis.kind = "notasks"
     THEN (IF storeFails THEN CatchThrows(m1) ELSE Catch(m1))
     ELSE LET c == createWorkBots(m1.d, id, a.agent_id, analysis)
          IN StartBot([m1 EXCEPT !.d = c.d, !.sw.workBots = c.workBots], 1)

SetM(s, run) ==
  \E m \in {run} :
    /\ SetDB(m.d)
    /\ sweeps' = [sweeps EXCEPT ![s] = m.sw]
    /\ processLog' = m.count

\* The timer fires: processPendingAssignments selects the assigned rows and
\* begins the first one
SweepStart(s) ==
  /\ sweeps[s].pc = "idle"
  /\ \A t \in 1..(s - 1) : sweeps[t].pc # "idle"
  /\ LET pending == SelectSeq([i \in 1..Len(task_assignments) |-> i],
                      LAMBDA i : task_assignments[i].status = "assigned")
     IN /\ pending # <<>>
        /\ SetM(s, BeginNext([d |-> DB, count |-> processLog,
                              sw |-> [IdleSweep EXCEPT !.pending = pending, !.idx = 1]]))
  /\ UNCHANGED <<scope, requests, failures, checks, client>>

\* The decompose reasoning call of sweep s returns; storeFails: the store
\* fails on the UPDATE of the catch block, when that is reached
DecomposeReturn(s, reply, storeFails) ==
  /\ sweeps[s].pc = "decompose"
  /\ storeFails => scope.storeFailure /\ reply.kind = "notasks"
  /\ \E m \in {Decomposed([d |-> DB, sw |-> sweeps[s], count |-> processLog],
                            reply, storeFails)} :
        Len(m.d.work_bots) <= MaxBots /\ SetM(s, m)
  /\ UNCHANGED <<scope, requests, failures, checks, client>>

\* The execute reasoning call of sweep s returns (ok) or fails
BotReturn(s, ok) ==
  /\ sweeps[s].pc = "bot"
  /\ ok \/ failures < MaxFailures
  /\ failures' = IF ok THEN failures ELSE failures + 1
  /\ SetM(s, BotDone([d |-> DB, sw |-> sweeps[s], count |-> processLog], ok))
  /\ UNCHANGED <<scope, requests, checks, client>>

Next ==
  \/ \E input \in scope.inputs, uuid \in Uuids : ReceiveTask(input, uuid)
  \/ \E r \in 1..Len(requests), ok \in BOOLEAN : UnderstandReturn(r, ok)
  \/ \E r \in {q \in 1..Len(requests) : requests[q].pc = "plan"} :
        \E reply \in PlanReplies, storeFails \in BOOLEAN :
          PlanReturn(r, reply, storeFails)
  \/ \E s \in DOMAIN sweeps : SweepStart(s)
  \/ \E s \in DOMAIN sweeps, reply \in DecomposeReplies, storeFails \in BOOLEAN :
        DecomposeReturn(s, reply, storeFails)
  \/ \E s \in DOMAIN sweeps, ok \in BOOLEAN : BotReturn(s, ok)

Spec == Init /\ [][Next]_vars
SpecCrowded == InitCrowded /\ [][Next]_vars
SpecSingle == InitSingle /\ [][Next]_vars

\* The running system: the timer keeps firing, so a sweep starts whenever
\* it can, and every reasoning call of a sweep returns or fails; the store
\* may fail as in Intake
Fairness ==
  \A s \in 1..Intake.sweeps :
    /\ WF_vars(SweepStart(s))
    /\ WF_vars(\E reply \in DecomposeReplies, storeFails \in BOOLEAN :
                 DecomposeReturn(s, reply, storeFails))
    /\ WF_vars(\E ok \in BOOLEAN : BotReturn(s, ok))

SpecRunning == InitIntake /\ [][Next]_vars /\ Fairness
SpecIntake == InitIntake /\ [][Next]_vars
SpecCapacity == InitCapacity /\ [][Next]_vars
SpecRoster == InitRoster /\ [][Next]_vars

\* The system with a client that calls monitorProgress
NextClient ==
  \/ Next
  \/ \E taskId \in 1..Len(tasks) : MonitorProgress(taskId)

SpecClient == InitClient /\ [][NextClient]_vars
SpecTwoTasks == InitTwoTasks /\ [][NextClient]_vars

\* The system with a client that calls getTaskStatus
NextLookup ==
  \/ Next
  \/ \E taskId \in AskedIds : \E order \in UpdateOrders(DB, taskId) :
        GetTaskStatus(taskId, order)

SpecLookup == InitLookup /\ [][NextLookup]_vars

\* The system with a client that reads, a restart that seeds, and a clock
NextReader ==
  \/ NextLookup
  \/ \E taskId \in AskedIds : \E order \in UpdateOrders(DB, taskId) :
        InteractStart(taskId, order)
  \/ \E ok \in BOOLEAN : InteractReturn(ok)
  \/ SeedSubAIAgents
  \/ Tick

SpecReader == InitReader /\ [][NextReader]_vars

\* ------------------------------------------------------------ properties

Terminal == {"completed", "partial", "failed"}

\* The work_bots rows of an assignment, in row order
BotsOf(i) == SelectSeq([b \in 1..Len(work_bots) |-> b],
                       LAMBDA b : work_bots[b].assignment_id = i)

\* Some sweep is inside processAssignment for assignment i
BeingProcessed(i) ==
  \E s \in DOMAIN sweeps : sweeps[s].pc # "idle" /\ sweeps[s].pending[sweeps[s].idx] = i

AssignmentsOf(a) ==
  {i \in 1..Len(task_assignments) : task_assignments[i].agent_id = a}

C3_ProcessedAtMostOnce ==
  \A i \in 1..Len(processLog) : processLog[i].began <= 1

NewBots == SubSeq(work_bots', Len(work_bots) + 1, Len(work_bots'))

Returns(r) == requests[r].pc = "plan" /\ requests'[r].pc = "done"

\* The task_assignments rows a step inserts
NewAssignments ==
  SubSeq(task_assignments', Len(task_assignments) + 1, Len(task_assignments'))

\* The row delegateToSubAIs inserts for a work package
AssignmentFor(taskId, workPackage) ==
  [task_id |-> taskId, agent_id |-> workPackage.assignedTo,
   assigned_elements |-> workPackage.elements, status |-> "assigned",
   progress |-> 0, started_at |-> FALSE, completed_at |-> FALSE]

\* C11: a receiveTask call that returns success has created exactly one
\* Assignment for each work package of its plan that names an existing
\* agent, in plan order, and none for a package naming an unknown agent; an
\* unknown agent in one package does not abort the packages after it.
C11_OneAssignmentPerKnownPackage ==
  [][\A r \in 1..Len(requests) :
       (Returns(r) /\ requests'[r].success)
       => LET known == SelectSeq(requests'[r].projectPlan.workPackages,
                         LAMBDA w : w.assignedTo \in DOMAIN sub_ai_agents)
          IN /\ Len(NewAssignments) = Len(known)
             /\ Len(requests'[r].assignments) = Len(known)
             /\ NewAssignments =
                  [k \in 1..Len(known) |-> AssignmentFor(requests[r].task, known[k])]]_vars

\* Three packages, the second naming an unknown agent, gave two Assignments
C11_Witness ==
  \E r \in 1..Len(requests) :
    /\ requests[r].pc = "done" /\ requests[r].success
    /\ LET w == requests[r].projectPlan.workPackages
       IN /\ Len(w) = 3
          /\ w[1].assignedTo \in AgentIds
          /\ w[2].assignedTo = UnknownAgent
          /\ w[3].assignedTo \in AgentIds
    /\ Len(requests[r].assignments) = 2
    /\ Cardinality({i \in 1..Len(task_assignments) :
                      task_assignments[i].task_id = requests[r].task}) = 2

\* C12: when the understand call and the plan call of a receiveTask call
\* with a valid userId and title have both failed, the call returns a
\* success envelope whose understanding is {primaryIntent: description,
\* complexity: 'Moderate', requiredExpertise: ['General']}, it has created
\* exactly one Assignment, the fallback work package for sub-ai-code, and
\* the Task is in-progress.
C12_AllReasoningFailsStillDelegates ==
  [][\A r \in 1..Len(requests) :
       (Returns(r) /\ requests'[r].reasoning = <<"failed", "failed">>)
       => /\ requests'[r].success
          /\ requests'[r].understanding =
               [primaryIntent |-> requests[r].input.description,
                complexity |-> "Moderate", requiredExpertise |-> <<"General">>]
          /\ NewAssignments =
               <<AssignmentFor(requests[r].task,
                   [assignedTo |-> "sub-ai-code",
                    elements |-> <<MainImplementation>>])>>
          /\ Len(requests'[r].assignments) = 1
          /\ tasks'[requests[r].task].status = "in-progress"]_vars

C12_Witness ==
  \E r \in 1..Len(requests) :
    /\ requests[r].pc = "done"
    /\ requests[r].reasoning = <<"failed", "failed">>
    /\ requests[r].success
    /\ tasks[requests[r].task].status = "in-progress"

\* C13: every internal error of a receiveTask call is returned to its
\* caller as {success: false, error}: no call has returned while an error
\* of its own was left as a rejection that the envelope does not carry.
C13_EveryErrorIsReturned ==
  \A r \in 1..Len(requests) :
    requests[r].pc = "done" => ~requests[r].unhandledRejection

\* C14: when the plan reasoning call has returned a reply that parses but
\* carries no workPackages list, receiveTask returns success, the fallback
\* Assignment exists and the Task is not left pending.
C14_PlanWithoutPackagesDegrades ==
  \A r \in 1..Len(requests) :
    (requests[r].pc = "done" /\ Len(requests[r].reasoning) = 2
       /\ requests[r].reasoning[2] = "noWorkPackages")
    => /\ requests[r].success
       /\ tasks[requests[r].task].status # "pending"
       /\ \E i \in 1..Len(task_assignments) :
            /\ task_assignments[i].task_id = requests[r].task
            /\ task_assignments[i].agent_id = FallbackAgent
            /\ task_assignments[i].assigned_elements = <<MainImplementation>>

\* C15: a receiveTask call whose input has no title or no userId returns a
\* failure to its caller at once, and creates no Task row, no Assignment
\* and no ProgressUpdate and changes no agent load.
C15_InvalidInputCreatesNothing ==
  [][(Len(requests') = Len(requests) + 1
        /\ ~({"userId", "title"} \subseteq DOMAIN requests'[Len(requests')].input))
     => /\ requests'[Len(requests')].pc = "done"
        /\ ~requests'[Len(requests')].success
        /\ tasks' = tasks
        /\ task_assignments' = task_assignments
        /\ progress_updates' = progress_updates
        /\ sub_ai_agents' = sub_ai_agents]_vars

C15_Witness ==
  \E r \in 1..Len(requests) :
    /\ "title" \notin DOMAIN requests[r].input
    /\ requests[r].pc = "done"
    /\ ~requests[r].success
    /\ tasks = <<>>

\* ------------------------------------------- properties of the Task status

\* The task_assignments rows of a task
AssignmentsOfTask(t) ==
  {i \in 1..Len(task_assignments) : task_assignments[i].task_id = t}

\* monitorProgress's condition completed === total && total > 0
AllCompleted(t) ==
  /\ AssignmentsOfTask(t) # {}
  /\ \A i \in AssignmentsOfTask(t) : task_assignments[i].status = "completed"

\* The final 100% updates written for a task
FinalUpdates(t) ==
  {u \in 1..Len(progress_updates) :
     /\ progress_updates[u].task_id = t
     /\ progress_updates[u].message.kind = "Task completed successfully"}

Quiescent ==
  /\ \A r \in 1..Len(requests) : requests[r].pc = "done"
  /\ \A s \in DOMAIN sweeps : sweeps[s].pc = "idle"

C21_EveryAssignmentEnds ==
  \A i \in 1..Intake.assignments :
    (Len(task_assignments) >= i)
      ~> (Len(task_assignments) >= i /\ task_assignments[i].status \in Terminal)

\* A step in which a client's getTaskStatus call returns
Answered ==
  reads' = reads + 1 /\ response'.op = "getTaskStatus"

\* C22: getTaskStatus called with an external identifier that names no Task
\* returns {error: 'Task not found'} and does not throw.
C22_UnknownTaskIsNotFound ==
  [][(Answered /\ TaskRow(DB, response'.taskId) = 0)
     => /\ ~response'.threw
        /\ response'.result = [error |-> "Task not found"]]_vars

C22_Witness ==
  /\ response.op = "getTaskStatus"
  /\ response.taskId = Nonexistent
  /\ response.result = [error |-> "Task not found"]
  /\ tasks # <<>>

Reverse(seq) == [k \in 1..Len(seq) |-> seq[Len(seq) + 1 - k]]

\* The progress updates of task row t, in insertion order
UpdatesOf(t) == SelectSeq(progress_updates, LAMBDA u : u.task_id = t)

\* C23: getTaskStatus returns all ProgressUpdates of the Task in exactly the
\* reverse of their insertion order, also when several were inserted in one
\* second.
C23_UpdatesNewestFirst ==
  [][(Answered /\ TaskRow(DB, response'.taskId) # 0)
     => response'.result.updates =
          Reverse(UpdatesOf(TaskRow(DB, response'.taskId)))]_vars

\* C24: the ProgressUpdate log is append-only: every step keeps each row
\* that existed, with the same task, source, message and progress.
C24_LogIsAppendOnly ==
  [][/\ Len(progress_updates') >= Len(progress_updates)
     /\ \A u \in 1..Len(progress_updates) :
          progress_updates'[u] = progress_updates[u]]_vars

C24_Witness ==
  /\ Len(progress_updates) >= 4
  /\ \E u \in 1..Len(progress_updates) :
       progress_updates[u].source_type = "sub-ai"
  /\ \E t \in 1..Len(tasks) : Cardinality(FinalUpdates(t)) >= 1

\* C25: getTaskStatus and interactWithUser are read-only: a step of either
\* leaves every Task, Assignment, WorkBot, ProgressUpdate and agent load as
\* it was, for known and for unknown identifiers.
C25_ReadsChangeNothing ==
  [][(response' # response
        /\ response'.op \in {"getTaskStatus", "interactWithUser"})
     => /\ tasks' = tasks
        /\ task_assignments' = task_assignments
        /\ work_bots' = work_bots
        /\ progress_updates' = progress_updates
        /\ sub_ai_agents' = sub_ai_agents]_vars

C25_Witness ==
  /\ response.op = "interactWithUser"
  /\ response.pc = "done"
  /\ TaskRow(DB, response.taskId) # 0
  /\ progress_updates # <<>>

\* C26: when the respond reasoning call has failed, interactWithUser has
\* not thrown and has returned the fallback string with the Task's status,
\* whatever identifier it was called with.
C26_FailedRespondGivesFallback ==
  (response.op = "interactWithUser" /\ response.pc = "done"
     /\ response.reasoning = "failed")
  => /\ ~response.threw
     /\ "task" \in DOMAIN response.status
          => response.result = MonitoringText(response.status.task.status)

\* C27: no exception escapes processAssignment, whatever reasoning call or
\* store operation fails, the UPDATE that marks the Assignment failed
\* included.
C27_NothingEscapesProcessAssignment ==
  \A i \in 1..Len(processLog) : ~processLog[i].escaped

\* reportToAtlantis runs for the assignments of agent a with row id <= n
RECURSIVE ReportsUpTo(_, _)
ReportsUpTo(a, n) ==
  IF n = 0 THEN 0
  ELSE ReportsUpTo(a, n - 1)
       + (IF task_assignments[n].agent_id = a THEN processLog[n].reports ELSE 0)

C29_SeedingIsIdempotent ==
  [][/\ DOMAIN sub_ai_agents' = SeededAgentIds
     /\ Cardinality(DOMAIN sub_ai_agents') = 12
     /\ response'.op = "seedSubAIAgents" /\ reads' = reads + 1
          => sub_ai_agents' = sub_ai_agents]_vars

C29_Witness ==
  /\ response.op = "seedSubAIAgents"
  /\ \E a \in AgentIds : sub_ai_agents[a].current_load > 0

\* C30: every Task's external identifier begins with 'task-' and differs
\* from every other Task's, and getTaskStatus called with it returns that
\* Task, with its title, and with status pending and no Assignments as long
\* as the receiveTask call that created it has not delegated.
C30_IdentifierFindsItsTask ==
  [][/\ \A t \in 1..Len(tasks') : tasks'[t].task_id[1] = "task-"
     /\ \A t, u \in 1..Len(tasks') : t # u => tasks'[t].task_id # tasks'[u].task_id
     /\ \A t \in 1..Len(tasks) :
          (Answered /\ response'.taskId = tasks[t].task_id)
          => /\ response'.result.task.id = t
             /\ response'.result.task.title = tasks[t].title
             /\ (\E r \in 1..Len(requests) :
                   requests[r].task = t /\ requests[r].pc # "done")
                => /\ response'.result.task.status = "pending"
                   /\ response'.result.assignments = <<>>]_vars

\* The second of two tasks was looked up before its delegation
C30_Witness ==
  /\ Len(tasks) = 2
  /\ tasks[1].title # tasks[2].title
  /\ response.op = "getTaskStatus"
  /\ response.taskId = tasks[2].task_id
  /\ response.result.task.title = tasks[2].title
  /\ response.result.task.status = "pending"
  /\ response.result.assignments = <<>>
  /\ task_assignments # <<>>

\* ------------------------------------------------ properties of work bots

RunningBots(i) ==
  {b \in 1..Len(work_bots) :
     work_bots[b].assignment_id = i /\ work_bots[b].status = "running"}

BotLifecycle ==
  {<<"created">>, <<"created", "running">>,
   <<"created", "running", "completed">>, <<"created", "running", "failed">>}

PackagesFor(workPackages, a) ==
  {k \in 1..Len(workPackages) : workPackages[k].assignedTo = a}

\* C36: capacity is no admission gate: a receiveTask call whose plan is well
\* formed returns success, and for every agent it has created one
\* Assignment and added 1 to the load per work package naming the agent,
\* whatever the load was: a load above max_capacity is reached.
C36_CapacityIsNoGate ==
  [][\A r \in 1..Len(requests) :
       Returns(r)
       => /\ requests'[r].success
          /\ \A a \in SeededAgentIds :
               LET n == Cardinality(PackagesFor(requests'[r].projectPlan.workPackages, a))
               IN /\ sub_ai_agents'[a].current_load = sub_ai_agents[a].current_load + n
                  /\ Cardinality({i \in 1..Len(NewAssignments) :
                                    NewAssignments[i].agent_id = a}) = n]_vars

\* An agent with more Assignments and a higher load than max_capacity
C36_Witness ==
  \E a \in SeededAgentIds :
    /\ sub_ai_agents[a].current_load > maxCapacity
    /\ Cardinality(AssignmentsOf(a)) > maxCapacity

\* C37: a work package naming an agent that is in the store but not active
\* is treated as one naming an unknown agent: no Assignment exists for such
\* an agent, and its load has not been incremented.
C37_InactiveAgentGetsNoAssignment ==
  \A a \in DOMAIN sub_ai_agents :
    sub_ai_agents[a].status # "active"
    => /\ AssignmentsOf(a) = {}
       /\ sub_ai_agents[a].current_load = 0

\* The progress_updates rows a step inserts
NewUpdates ==
  SubSeq(progress_updates', Len(progress_updates) + 1, Len(progress_updates'))

\* The messages receiveTask writes that are no warning
DelegationMessages == {"Assigned", "Overall progress", "Task completed successfully"}

\* C38: a receiveTask call that returns success has appended exactly one
\* 'Assigned' ProgressUpdate with progress 10 for each work package it
\* delegated, and exactly one warning ProgressUpdate for each work package
\* it skipped because the agent is unknown.
C38_OneUpdatePerPackage ==
  [][\A r \in 1..Len(requests) :
       (Returns(r) /\ requests'[r].success)
       => LET w == requests'[r].projectPlan.workPackages
              skipped == {k \in 1..Len(w) : w[k].assignedTo \notin DOMAIN sub_ai_agents}
          IN /\ Cardinality({u \in 1..Len(NewUpdates) :
                                /\ NewUpdates[u].message.kind = "Assigned"
                                /\ NewUpdates[u].progress_percentage = 10})
                  = Len(w) - Cardinality(skipped)
             /\ Cardinality({u \in 1..Len(NewUpdates) :
                                NewUpdates[u].message.kind \notin DelegationMessages})
                  = Cardinality(skipped)]_vars

\* A step in which the processing of assignment i fails: the row is marked
\* failed, or an exception leaves processAssignment
FailsNow(i) ==
  \/ task_assignments[i].status # "failed" /\ task_assignments'[i].status = "failed"
  \/ ~processLog[i].escaped /\ processLog'[i].escaped

\* C39: within one sweep, a failure while processing one selected
\* Assignment does not keep the sweep from processing the Assignments it
\* selected after that one: the sweep goes on to a later one.
C39_FailureDoesNotEndTheSweep ==
  [][\A s \in DOMAIN sweeps :
       (/\ sweeps[s].pc # "idle"
        /\ sweeps[s].idx < Len(sweeps[s].pending)
        /\ FailsNow(sweeps[s].pending[sweeps[s].idx]))
       => /\ sweeps'[s].pc # "idle"
          /\ sweeps'[s].idx > sweeps[s].idx]_vars

\* Plan replies none of whose work packages names an agent of the store
UnresolvedReplies ==
  {reply \in PlanReplies :
     /\ reply.kind = "plan"
     /\ "workPackages" \in DOMAIN reply.plan
     /\ \A k \in 1..Len(reply.plan.workPackages) :
          reply.plan.workPackages[k].assignedTo \notin DOMAIN sub_ai_agents}

\* The receiveTask calls that returned a plan none of whose work packages
\* resolved
UnresolvedCalls ==
  {r \in 1..Len(requests) :
     /\ requests[r].pc = "done" /\ requests[r].success
     /\ \A k \in 1..Len(requests[r].projectPlan.workPackages) :
          requests[r].projectPlan.workPackages[k].assignedTo
            \notin DOMAIN sub_ai_agents}

\* The Task of such a call is in-progress without Assignments, and every
\* monitorProgress call so far reported 0/0 with progress 0 and did not
\* complete it
StaysOpen ==
  \A r \in UnresolvedCalls :
    LET t == requests[r].task
    IN /\ tasks[t].status = "in-progress"
       /\ ~tasks[t].completed_at
       /\ AssignmentsOfTask(t) = {}
       /\ FinalUpdates(t) = {}
       /\ \A u \in 1..Len(progress_updates) :
            (progress_updates[u].task_id = t
               /\ progress_updates[u].message.kind = "Overall progress")
            => /\ progress_updates[u].message.args = <<0, 0>>
               /\ progress_updates[u].progress_percentage = 0

\* C40: when no work package of the plan resolves to an agent, receiveTask
\* returns success and leaves the Task in-progress with zero Assignments,
\* and no later monitorProgress call completes the Task: each reports 0 of
\* 0 with progress 0.
C40_UnresolvedPlanNeverCompletes ==
  [][/\ \A r \in {q \in 1..Len(requests) : requests[q].pc = "plan"} :
          \A reply \in UnresolvedReplies, storeFails \in BOOLEAN :
            PlanReturn(r, reply, storeFails)
            => /\ requests'[r].success
               /\ requests'[r].assignments = <<>>
     /\ StaysOpen']_vars

\* monitorProgress was called again for a task whose two packages named
\* an unknown agent
C40_Witness ==
  /\ checks = MaxChecks
  /\ \E r \in UnresolvedCalls :
       /\ Len(requests[r].projectPlan.workPackages) = 2
       /\ Cardinality({u \in 1..Len(progress_updates) :
                         progress_updates[u].task_id = requests[r].task}) > MaxChecks

====
